---- MODULE Spec2Model ----
(***************************************************************************)
(* A model of passphrase-py's Passphrase entity (passphrase/passphrase.py) *)
(* and of the helpers it imports (secrets, aux).                           *)
(*                                                                         *)
(* Representation.                                                         *)
(*   - An optional value is a sequence of length <= 1: None is <<>> and    *)
(*     a set value v is <<v>>.                                             *)
(*   - A Python string is a sequence of one-character strings.             *)
(*   - A value that can sit in a result or in a case-tree is a node        *)
(*     [kind, chars, kids, num]: kind "str" carries chars, kind "int"      *)
(*     carries num, kinds "list", "tuple" and "set" carry kids (nodes).    *)
(*   - The random source is a nondeterministic choice over the outcomes    *)
(*     it can produce.                                                     *)
(***************************************************************************)
EXTENDS Integers, Sequences, FiniteSets, TLC

VARIABLES
    wordlist,           \* _wordlist: None or <<list of words>>
    external_wordlist,  \* _external_wordlist: None, <<TRUE>> or <<FALSE>>
    amount_w,           \* _amount_w: None or <<n>>
    amount_n,           \* _amount_n: None or <<n>>
    randnum_min,        \* _randnum_min
    randnum_max,        \* _randnum_max
    passwordlen,        \* _passwordlen: None or <<n>>
    use_lowercase,      \* _password_use_lowercase
    use_uppercase,      \* _password_use_uppercase
    use_digits,         \* _password_use_digits
    use_punctuation,    \* _password_use_punctuation
    entropy_bits_req,   \* _entropy_bits_req: None or <<bits>>
    wordlist_entropy_bits, \* _wordlist_entropy_bits: None or <<thousandths of a bit>>
    separator,          \* _separator: a string
    last_result,        \* last_result: None or <<list of tokens>>
    ret,                \* the outcome of the last call: [op, arg, err, val, had]
    mcu                 \* make_chars_uppercase's call: [data, ctype, count, err, out, done]

vars == <<wordlist, external_wordlist, amount_w, amount_n, randnum_min,
          randnum_max, passwordlen, use_lowercase, use_uppercase, use_digits,
          use_punctuation, entropy_bits_req, wordlist_entropy_bits,
          separator, last_result, ret, mcu>>

config == <<wordlist, external_wordlist, amount_w, amount_n, randnum_min,
            randnum_max, passwordlen, use_lowercase, use_uppercase,
            use_digits, use_punctuation, entropy_bits_req,
            wordlist_entropy_bits, separator>>

-----------------------------------------------------------------------------
(* Bounds of the model. *)

\* The largest value handed to the amount_w, amount_n and passwordlen setters.
MaxAmount == 2
\* The largest value handed to the randnum_min and randnum_max setters.
MaxRandnum == 1
\* How many characters of each of string's character classes are modelled.
ClassSize == 1
\* randhex's outcomes are the strings h[i] = hex((a + b*i) mod 16) with
\* a in 0..MaxHexStart and b in 0..MaxHexStep.
MaxHexStart == 3
MaxHexStep == 1
\* The longest string handed to make_chars_uppercase.
MaxLen == 3
\* The largest entropy target handed over, besides those of the tests.
MaxBits == 4
\* The largest character set handed to calc's password_length_needed,
\* besides the full one.
MaxCharset == 6

-----------------------------------------------------------------------------
(* Python values. *)

None == <<>>

Some(v) == <<v>>

\* bool(x) of an optional list: None and the empty list are false.
Truthy(opt) == opt /= None /\ opt[1] /= <<>>

StrNode(chars) == [kind |-> "str", chars |-> chars, kids |-> <<>>, num |-> 0]

IntNode(n) == [kind |-> "int", chars |-> <<>>, kids |-> <<>>, num |-> n]

Container(kind, kids) == [kind |-> kind, chars |-> <<>>, kids |-> kids, num |-> 0]

Min(a, b) == IF a <= b THEN a ELSE b

Max(a, b) == IF a >= b THEN a ELSE b

\* s[a:b] and s[a:] of a Python sequence (0-based, end exclusive).
Slice(s, a, b) == SubSeq(s, a + 1, Min(b, Len(s)))

SliceFrom(s, a) == SubSeq(s, a + 1, Len(s))

-----------------------------------------------------------------------------
(* settings.py *)

\* The default numeric range (scaled down from six-digit numbers).
MIN_NUM == 3
MAX_NUM == 4

-----------------------------------------------------------------------------
(* secrets.py: the random source, as the set of outcomes of each primitive. *)

\* randbetween(lo, hi): an integer of the inclusive range.
randbetween(lo, hi) == lo .. hi

\* randchoice(seq): seq[randbetween(0, len - 1)].
randchoice(seq) == {seq[i + 1] : i \in randbetween(0, Len(seq) - 1)}

HexDigits == <<"0", "1", "2", "3", "4", "5", "6", "7",
               "8", "9", "a", "b", "c", "d", "e", "f">>

\* '{:x}'.format(v) for 0 <= v <= 15.
FormatHex(v) == HexDigits[v + 1]

\* randhex(n): 2n lowercase hex characters made of n random bytes.
randhex(n) ==
    {[i \in 1 .. 2 * n |-> FormatHex((a + b * i) % 16)] :
        a \in 0 .. MaxHexStart, b \in 0 .. MaxHexStep}

-----------------------------------------------------------------------------
(* Wordlists. *)

\* The first words of tests_passphrase.py's WORDS, shortened to two letters.
WORDS == << <<"v", "i">>, <<"f", "r">> >>

\* wordlist.json's "wordlist": the list WORDS was picked from, cut to two words.
InternalWords == << <<"f", "r">>, <<"v", "i">> >>

\* wordlist.json's "entropy_bits", in thousandths of a bit: log2 of the 7776
\* words of the EFF Large Wordlist.
InternalEntropyBits == 12925

\* The lists handed to the wordlist setter and read from word files.
WordlistInputs == {<<>>, SubSeq(WORDS, 1, 1), WORDS}

\* The six words of the tests' word file, cut to two letters each.
FileWords == WORDS \o << <<"c", "o">>, <<"p", "a">>, <<"r", "e">>, <<"b", "r">> >>

-----------------------------------------------------------------------------
(* The outcome of a call. *)

\* What a call did: its name, the argument it was given (None for a call
\* without one), the error it raised ("" when it returned), the value it
\* returned (a list, or <<n>> for a number), and whether last_result was set
\* when it began.
Ok(op, val) ==
    [op |-> op, arg |-> None, err |-> "", val |-> val,
     had |-> last_result /= None]

Raise(op, err) ==
    [op |-> op, arg |-> None, err |-> err, val |-> <<>>,
     had |-> last_result /= None]

\* The outcome of a call that was given arg.
Given(arg, outcome) == [outcome EXCEPT !.arg = Some(arg)]

Constructed ==
    [op |-> "init", arg |-> None, err |-> "", val |-> <<>>, had |-> FALSE]

-----------------------------------------------------------------------------
(* Construction: the class attributes, __init__ with no input file. *)

\* make_chars_uppercase is a static method: its call is no part of the entity.
NoCall ==
    [data |-> StrNode(<<>>), ctype |-> "int", count |-> 0, err |-> "",
     out |-> StrNode(<<>>), done |-> FALSE]

\* _separator = ' '
DefaultSeparator == <<" ">>

InitEntity ==
    /\ wordlist = None
    /\ external_wordlist = None
    /\ amount_w = None
    /\ amount_n = None
    /\ randnum_min = MIN_NUM
    /\ randnum_max = MAX_NUM
    /\ passwordlen = None
    /\ use_lowercase = TRUE
    /\ use_uppercase = TRUE
    /\ use_digits = TRUE
    /\ use_punctuation = TRUE
    /\ entropy_bits_req = None
    /\ wordlist_entropy_bits = None
    /\ separator = DefaultSeparator
    /\ last_result = None
    /\ ret = Constructed

Init ==
    /\ InitEntity
    /\ mcu = NoCall

-----------------------------------------------------------------------------
(* Setters. *)

\* The integers handed to a setter: one negative value and 0..max.
SetterInputs(max) == -1 .. max

set_amount_w_Unchecked ==
    \E amount \in SetterInputs(MaxAmount) :
        /\ amount_w' = Some(amount)
        /\ ret' = Given(amount, Ok("amount_w", <<>>))
        /\ UNCHANGED <<wordlist, external_wordlist, amount_n, randnum_min,
                       randnum_max, passwordlen, use_lowercase, use_uppercase,
                       use_digits, use_punctuation, entropy_bits_req,
                       wordlist_entropy_bits, separator, last_result, mcu>>

set_amount_w ==
    \E amount \in SetterInputs(MaxAmount) :
        /\ IF amount < 0
           THEN /\ ret' = Given(amount, Raise("amount_w", "ValueError"))
                /\ UNCHANGED amount_w
           ELSE /\ amount_w' = Some(amount)
                /\ ret' = Given(amount, Ok("amount_w", <<>>))
        /\ UNCHANGED <<wordlist, external_wordlist, amount_n, randnum_min,
                       randnum_max, passwordlen, use_lowercase, use_uppercase,
                       use_digits, use_punctuation, entropy_bits_req,
                       wordlist_entropy_bits, separator, last_result, mcu>>

set_amount_n ==
    \E amount \in SetterInputs(MaxAmount) :
        /\ IF amount < 0
           THEN /\ ret' = Given(amount, Raise("amount_n", "ValueError"))
                /\ UNCHANGED amount_n
           ELSE /\ amount_n' = Some(amount)
                /\ ret' = Given(amount, Ok("amount_n", <<>>))
        /\ UNCHANGED <<wordlist, external_wordlist, amount_w, randnum_min,
                       randnum_max, passwordlen, use_lowercase, use_uppercase,
                       use_digits, use_punctuation, entropy_bits_req,
                       wordlist_entropy_bits, separator, last_result, mcu>>

set_randnum_min ==
    \E randnum \in SetterInputs(MaxRandnum) :
        /\ IF randnum < 0
           THEN /\ ret' = Given(randnum, Raise("randnum_min", "ValueError"))
                /\ UNCHANGED randnum_min
           ELSE /\ randnum_min' = randnum
                /\ ret' = Given(randnum, Ok("randnum_min", <<>>))
        /\ UNCHANGED <<wordlist, external_wordlist, amount_w, amount_n,
                       randnum_max, passwordlen, use_lowercase, use_uppercase,
                       use_digits, use_punctuation, entropy_bits_req,
                       wordlist_entropy_bits, separator, last_result, mcu>>

set_randnum_max ==
    \E randnum \in SetterInputs(MaxRandnum) :
        /\ IF randnum < 0
           THEN /\ ret' = Given(randnum, Raise("randnum_max", "ValueError"))
                /\ UNCHANGED randnum_max
           ELSE /\ randnum_max' = randnum
                /\ ret' = Given(randnum, Ok("randnum_max", <<>>))
        /\ UNCHANGED <<wordlist, external_wordlist, amount_w, amount_n,
                       randnum_min, passwordlen, use_lowercase, use_uppercase,
                       use_digits, use_punctuation, entropy_bits_req,
                       wordlist_entropy_bits, separator, last_result, mcu>>

set_passwordlen ==
    \E length \in SetterInputs(MaxAmount) :
        /\ IF length < 0
           THEN /\ ret' = Given(length, Raise("passwordlen", "ValueError"))
                /\ UNCHANGED passwordlen
           ELSE /\ passwordlen' = Some(length)
                /\ ret' = Given(length, Ok("passwordlen", <<>>))
        /\ UNCHANGED <<wordlist, external_wordlist, amount_w, amount_n,
                       randnum_min, randnum_max, use_lowercase, use_uppercase,
                       use_digits, use_punctuation, entropy_bits_req,
                       wordlist_entropy_bits, separator, last_result, mcu>>

\* The wordlist setter, also reached through import_words_from_file.
set_wordlist ==
    \E words \in WordlistInputs :
        /\ wordlist' = Some(words)
        /\ external_wordlist' = Some(TRUE)
        /\ ret' = Ok("wordlist", <<>>)
        /\ UNCHANGED <<amount_w, amount_n, randnum_min, randnum_max,
                       passwordlen, use_lowercase, use_uppercase, use_digits,
                       use_punctuation, entropy_bits_req,
                       wordlist_entropy_bits, separator, last_result, mcu>>

load_internal_wordlist ==
    /\ wordlist' = Some(InternalWords)
    /\ external_wordlist' = Some(FALSE)
    /\ wordlist_entropy_bits' = Some(InternalEntropyBits)
    /\ ret' = Ok("load_internal_wordlist", <<>>)
    /\ UNCHANGED <<amount_w, amount_n, randnum_min, randnum_max, passwordlen,
                   use_lowercase, use_uppercase, use_digits, use_punctuation,
                   entropy_bits_req, separator, last_result, mcu>>

-----------------------------------------------------------------------------
(* generate *)

GeneratedPassphrases_Capitalized ==
    {[i \in 1 .. amount_w[1] |-> StrNode([ws[i] EXCEPT ![1] = "V"])]
        \o [i \in 1 .. amount_n[1] |-> IntNode(ns[i])] :
        ws \in [1 .. amount_w[1] -> randchoice(wordlist[1])],
        ns \in [1 .. amount_n[1] -> randbetween(MIN_NUM, MAX_NUM)]}

GeneratedPassphrases_NumbersFirst ==
    {[i \in 1 .. amount_n[1] |-> IntNode(ns[i])] \o [i \in 1 .. amount_w[1] |-> StrNode(ws[i])] :
        ws \in [1 .. amount_w[1] -> randchoice(wordlist[1])],
        ns \in [1 .. amount_n[1] -> randbetween(MIN_NUM, MAX_NUM)]}

\* The lists generate can build: amount_w draws of randchoice(wordlist), then
\* amount_n draws of randbetween(MIN_NUM, MAX_NUM).
GeneratedPassphrases ==
    {[i \in 1 .. amount_w[1] |-> StrNode(ws[i])] \o [i \in 1 .. amount_n[1] |-> IntNode(ns[i])] :
        ws \in [1 .. amount_w[1] -> randchoice(wordlist[1])],
        ns \in [1 .. amount_n[1] -> randbetween(MIN_NUM, MAX_NUM)]}

GenerateRejects_ZeroIsUnset ==
    \/ amount_n \in {None, Some(0)}
    \/ amount_w \in {None, Some(0)}
    \/ ~Truthy(wordlist)

\* generate's check: amount_n is None or amount_w is None or not wordlist.
GenerateRejects ==
    \/ amount_n = None
    \/ amount_w = None
    \/ ~Truthy(wordlist)

generate ==
    /\ IF GenerateRejects
       THEN /\ ret' = Raise("generate", "ValueError")
            /\ UNCHANGED last_result
       ELSE \E passphrase \in GeneratedPassphrases :
                /\ last_result' = Some(passphrase)
                /\ ret' = Ok("generate", passphrase)
    /\ UNCHANGED <<config, mcu>>

-----------------------------------------------------------------------------
(* The passphrase generator: configuration through the setters, then generate. *)

Next ==
    \/ set_wordlist
    \/ load_internal_wordlist
    \/ set_amount_w
    \/ set_amount_n
    \/ generate

Spec == Init /\ [][Next]_vars

(* The numeric range: an entity built by Passphrase('internal'), whose *)
(* counts and range are then set before generate.                      *)

InitInternal ==
    /\ wordlist = Some(InternalWords)
    /\ external_wordlist = Some(FALSE)
    /\ amount_w = None
    /\ amount_n = None
    /\ randnum_min = MIN_NUM
    /\ randnum_max = MAX_NUM
    /\ passwordlen = None
    /\ use_lowercase = TRUE
    /\ use_uppercase = TRUE
    /\ use_digits = TRUE
    /\ use_punctuation = TRUE
    /\ entropy_bits_req = None
    /\ wordlist_entropy_bits = Some(InternalEntropyBits)
    /\ separator = DefaultSeparator
    /\ last_result = None
    /\ ret = Constructed
    /\ mcu = NoCall

NextRange ==
    \/ set_amount_w
    \/ set_amount_n
    \/ set_randnum_min
    \/ set_randnum_max
    \/ generate

SpecRange == InitInternal /\ [][NextRange]_vars

(* The setters of the counts, the length and the range, in any order. *)

NextSetters ==
    \/ set_amount_w
    \/ set_amount_n
    \/ set_passwordlen
    \/ set_randnum_min
    \/ set_randnum_max

SpecSetters == Init /\ [][NextSetters]_vars

(* The case arguments the tests and __main__ hand to generate. *)

\* From all lowercase but MaxAmount to MaxAmount uppercase characters.
CaseArguments == -MaxAmount .. MaxAmount

\* generate(case): generate is declared as generate(self), so that a call
\* with an argument raises TypeError before the method's body is entered.
generate_case ==
    \E case \in CaseArguments :
        /\ ret' = Given(case, Raise("generate", "TypeError"))
        /\ UNCHANGED <<config, last_result, mcu>>

NextBias ==
    \/ set_amount_w
    \/ set_amount_n
    \/ generate
    \/ generate_case

SpecBias == InitInternal /\ [][NextBias]_vars

-----------------------------------------------------------------------------
(* generate_password *)

LowercaseLetters ==
    <<"a", "b", "c", "d", "e", "f", "g", "h", "i", "j", "k", "l", "m",
      "n", "o", "p", "q", "r", "s", "t", "u", "v", "w", "x", "y", "z">>

UppercaseLetters ==
    <<"A", "B", "C", "D", "E", "F", "G", "H", "I", "J", "K", "L", "M",
      "N", "O", "P", "Q", "R", "S", "T", "U", "V", "W", "X", "Y", "Z">>

DigitChars == <<"0", "1", "2", "3", "4", "5", "6", "7", "8", "9">>

\* string.punctuation up to the underscore (the grave accent that follows
\* cannot be written in a string of this language).
PunctuationChars ==
    <<"!", "\"", "#", "$", "%", "&", "'", "(", ")", "*", "+", ",", "-", ".",
      "/", ":", ";", "<", "=", ">", "?", "@", "[", "\\", "]", "^", "_">>

\* string's character classes, each cut to its first ClassSize characters.
ascii_lowercase == SubSeq(LowercaseLetters, 1, ClassSize)

ascii_uppercase == SubSeq(UppercaseLetters, 1, ClassSize)

digits == SubSeq(DigitChars, 1, ClassSize)

punctuation == SubSeq(PunctuationChars, 1, ClassSize)

PasswordCharacters_DigitsAlways ==
    (IF use_lowercase THEN ascii_lowercase ELSE <<>>)
    \o (IF use_uppercase THEN ascii_uppercase ELSE <<>>)
    \o digits
    \o (IF use_punctuation THEN punctuation ELSE <<>>)

\* _get_password_characters
PasswordCharacters ==
    (IF use_lowercase THEN ascii_lowercase ELSE <<>>)
    \o (IF use_uppercase THEN ascii_uppercase ELSE <<>>)
    \o (IF use_digits THEN digits ELSE <<>>)
    \o (IF use_punctuation THEN punctuation ELSE <<>>)

set_password_use_lowercase ==
    \E use \in BOOLEAN :
        /\ use_lowercase' = use
        /\ ret' = Ok("password_use_lowercase", <<>>)
        /\ UNCHANGED <<wordlist, external_wordlist, amount_w, amount_n,
                       randnum_min, randnum_max, passwordlen, use_uppercase,
                       use_digits, use_punctuation, entropy_bits_req,
                       wordlist_entropy_bits, separator, last_result, mcu>>

set_password_use_uppercase ==
    \E use \in BOOLEAN :
        /\ use_uppercase' = use
        /\ ret' = Ok("password_use_uppercase", <<>>)
        /\ UNCHANGED <<wordlist, external_wordlist, amount_w, amount_n,
                       randnum_min, randnum_max, passwordlen, use_lowercase,
                       use_digits, use_punctuation, entropy_bits_req,
                       wordlist_entropy_bits, separator, last_result, mcu>>

set_password_use_digits ==
    \E use \in BOOLEAN :
        /\ use_digits' = use
        /\ ret' = Ok("password_use_digits", <<>>)
        /\ UNCHANGED <<wordlist, external_wordlist, amount_w, amount_n,
                       randnum_min, randnum_max, passwordlen, use_lowercase,
                       use_uppercase, use_punctuation, entropy_bits_req,
                       wordlist_entropy_bits, separator, last_result, mcu>>

set_password_use_punctuation ==
    \E use \in BOOLEAN :
        /\ use_punctuation' = use
        /\ ret' = Ok("password_use_punctuation", <<>>)
        /\ UNCHANGED <<wordlist, external_wordlist, amount_w, amount_n,
                       randnum_min, randnum_max, passwordlen, use_lowercase,
                       use_uppercase, use_digits, entropy_bits_req,
                       wordlist_entropy_bits, separator, last_result, mcu>>

GeneratedPasswords_Appended(characters) ==
    {(IF last_result = None THEN <<>> ELSE last_result[1])
        \o [i \in 1 .. passwordlen[1] |-> StrNode(<<cs[i]>>)] :
        cs \in [1 .. passwordlen[1] -> randchoice(characters)]}

\* The lists generate_password can build: passwordlen draws of
\* randchoice(characters).
GeneratedPasswords(characters) ==
    {[i \in 1 .. passwordlen[1] |-> StrNode(<<cs[i]>>)] :
        cs \in [1 .. passwordlen[1] -> randchoice(characters)]}

generate_password_ClearsOnFailure ==
    /\ LET characters == PasswordCharacters IN
       IF passwordlen = None \/ characters = <<>>
       THEN /\ ret' = Raise("generate_password", "ValueError")
            /\ last_result' = None
       ELSE \E password \in GeneratedPasswords(characters) :
                /\ last_result' = Some(password)
                /\ ret' = Ok("generate_password", password)
    /\ UNCHANGED <<config, mcu>>

generate_password ==
    /\ LET characters == PasswordCharacters IN
       IF passwordlen = None \/ characters = <<>>
       THEN /\ ret' = Raise("generate_password", "ValueError")
            /\ UNCHANGED last_result
       ELSE \E password \in GeneratedPasswords(characters) :
                /\ last_result' = Some(password)
                /\ ret' = Ok("generate_password", password)
    /\ UNCHANGED <<config, mcu>>

(* The password generator: the flags and the length are set, then *)
(* generate_password is called.                                   *)

NextPassword ==
    \/ set_passwordlen
    \/ set_password_use_lowercase
    \/ set_password_use_uppercase
    \/ set_password_use_digits
    \/ set_password_use_punctuation
    \/ generate_password

SpecPassword == Init /\ [][NextPassword]_vars

-----------------------------------------------------------------------------
(* generate_uuid4 *)

UUID4Segments_VariantUpTo12(hexstr, variant) ==
    << Slice(hexstr, 0, 8),
       Slice(hexstr, 8, 12),
       <<"4">> \o Slice(hexstr, 12, 15),
       <<FormatHex(variant + 1)>> \o Slice(hexstr, 15, 18),
       SliceFrom(hexstr, 18) >>

\* The five parts built of randhex's string and randbetween(8, 11)'s number.
UUID4Segments(hexstr, variant) ==
    << Slice(hexstr, 0, 8),
       Slice(hexstr, 8, 12),
       <<"4">> \o Slice(hexstr, 12, 15),
       <<FormatHex(variant)>> \o Slice(hexstr, 15, 18),
       SliceFrom(hexstr, 18) >>

\* The lists generate_uuid4 can build.
GeneratedUUID4s ==
    {LET segments == UUID4Segments(hexstr, variant)
     IN  [i \in 1 .. Len(segments) |-> StrNode(segments[i])] :
        hexstr \in randhex(30), variant \in randbetween(8, 11)}

generate_uuid4 ==
    /\ \E uuid4 \in GeneratedUUID4s :
          /\ last_result' = Some(uuid4)
          /\ ret' = Ok("generate_uuid4", uuid4)
    /\ UNCHANGED <<config, mcu>>

(* The three generators on an entity that was configured before: each of *)
(* the wordlist, the counts and the password length is unset (as on a     *)
(* fresh entity) or set; the password is at most one character long.      *)

Optional(S) == {None} \cup {Some(v) : v \in S}

InitConfigured ==
    /\ wordlist \in Optional({InternalWords})
    /\ external_wordlist = IF wordlist = None THEN None ELSE Some(FALSE)
    /\ amount_w \in Optional(0 .. MaxAmount)
    /\ amount_n \in Optional(0 .. MaxAmount)
    /\ randnum_min = MIN_NUM
    /\ randnum_max = MAX_NUM
    /\ passwordlen \in Optional({0, 1})
    /\ use_lowercase = TRUE
    /\ use_uppercase = TRUE
    /\ use_digits = TRUE
    /\ use_punctuation = TRUE
    /\ entropy_bits_req = None
    /\ wordlist_entropy_bits =
          IF wordlist = None THEN None ELSE Some(InternalEntropyBits)
    /\ separator = DefaultSeparator
    /\ last_result = None
    /\ ret = Constructed
    /\ mcu = NoCall

NextGenerate ==
    \/ generate
    \/ generate_password
    \/ generate_uuid4

SpecGenerate == InitConfigured /\ [][NextGenerate]_vars

-----------------------------------------------------------------------------
(* separator and __str__ *)

\* What the separator setter is handed: strings of no, one and two
\* characters, and a number.
SeparatorInputs ==
    {StrNode(<<>>), StrNode(<<" ">>), StrNode(<<"-">>), StrNode(<<"-", ".">>),
     IntNode(0)}

set_separator ==
    \E sep \in SeparatorInputs :
        /\ IF sep.kind /= "str"
           THEN /\ ret' = Raise("separator", "TypeError")
                /\ UNCHANGED separator
           ELSE /\ separator' = sep.chars
                /\ ret' = Ok("separator", <<>>)
        /\ UNCHANGED <<wordlist, external_wordlist, amount_w, amount_n,
                       randnum_min, randnum_max, passwordlen, use_lowercase,
                       use_uppercase, use_digits, use_punctuation,
                       entropy_bits_req, wordlist_entropy_bits, last_result,
                       mcu>>

RECURSIVE FormatInt(_)
\* str(n) of an int: its decimal digits, after a minus sign below 0.
FormatInt(n) ==
    IF n < 0 THEN <<"-">> \o FormatInt(-n)
    ELSE IF n < 10 THEN <<DigitChars[n + 1]>>
    ELSE FormatInt(n \div 10) \o <<DigitChars[(n % 10) + 1]>>

\* str(w) of a token of last_result.
ToStr(w) == IF w.kind = "int" THEN FormatInt(w.num) ELSE w.chars

RECURSIVE Formatted(_, _)
\* "".join('{}{}'.format(w, sep) for w in map(str, tokens))
Formatted(tokens, sep) ==
    IF tokens = <<>> THEN <<>>
    ELSE ToStr(Head(tokens)) \o sep \o Formatted(Tail(tokens), sep)

rm_last_separator_NoGuard(separator_len) == Some(-separator_len)

\* -separator_len if separator_len > 0 else None
rm_last_separator(separator_len) ==
    IF separator_len > 0 THEN Some(-separator_len) ELSE None

\* s[:end:] with end None, negative (counted from the end) or not.
SliceTo(s, end) ==
    IF end = None THEN s
    ELSE IF end[1] < 0 THEN SubSeq(s, 1, Max(0, Len(s) + end[1]))
    ELSE SubSeq(s, 1, Min(end[1], Len(s)))

__str__ ==
    /\ ret' = Ok("__str__",
                 IF ~Truthy(last_result) THEN <<>>
                 ELSE SliceTo(Formatted(last_result[1], separator),
                              rm_last_separator(Len(separator))))
    /\ UNCHANGED <<config, last_result, mcu>>

(* The string of what the three generators leave in last_result, with the *)
(* separator changed between the calls, on an entity whose counts and     *)
(* password length are unset, 0 or 1.                                     *)

InitString ==
    /\ wordlist \in Optional({InternalWords})
    /\ external_wordlist = IF wordlist = None THEN None ELSE Some(FALSE)
    /\ amount_w \in Optional({0, 1})
    /\ amount_n \in Optional({0, 1})
    /\ randnum_min = MIN_NUM
    /\ randnum_max = MAX_NUM
    /\ passwordlen \in Optional({0, 1})
    /\ use_lowercase = TRUE
    /\ use_uppercase = TRUE
    /\ use_digits = TRUE
    /\ use_punctuation = TRUE
    /\ entropy_bits_req = None
    /\ wordlist_entropy_bits =
          IF wordlist = None THEN None ELSE Some(InternalEntropyBits)
    /\ separator = DefaultSeparator
    /\ last_result = None
    /\ ret = Constructed
    /\ mcu = NoCall

NextString ==
    \/ generate
    \/ generate_password
    \/ generate_uuid4
    \/ set_separator
    \/ __str__

SpecString == InitString /\ [][NextString]_vars

-----------------------------------------------------------------------------
(* calc.py: entropy arithmetic.  An entropy is a whole number of        *)
(* thousandths of a bit.                                                 *)

\* 1000 * log2(n) for n = 1 .. 16, rounded to the nearest integer.
Log2Table ==
    <<0, 1000, 1585, 2000, 2322, 2585, 2807, 3000,
      3170, 3322, 3459, 3585, 3700, 3807, 3907, 4000>>

\* math.log2(n) of a set size: the sizes up to 16 and the 94 characters of
\* all four character classes.
log2(n) == IF n = 94 THEN 6555 ELSE Log2Table[n]

\* math.ceil(a / b) for a >= 0 and b > 0.
Ceil(a, b) == (a + b - 1) \div b

\* What a function of calc does: the error it raises or the value it returns.
Value(val) == [err |-> "", val |-> val]

Error(err) == [err |-> err, val |-> 0]

\* entropy_bits(lst): log2(len(lst)).
calc_entropy_bits(lst) ==
    IF Len(lst) = 0 THEN Error("ValueError") ELSE Value(log2(Len(lst)))

\* entropy_bits_nrange(minimum, maximum): log2(maximum - minimum + 1).
calc_entropy_bits_nrange(minimum, maximum) ==
    IF maximum - minimum + 1 <= 0
    THEN Error("ValueError")
    ELSE Value(log2(maximum - minimum + 1))

calc_password_length_needed_OneShort(entropybits, size) ==
    IF entropybits <= 0 \/ size <= 1
    THEN Error("ValueError")
    ELSE Value(Ceil(entropybits * 1000, log2(size)) - 1)

\* password_length_needed(entropybits, chars) for len(chars) = size:
\* ceil(entropybits / log2(size)), at least 1.
calc_password_length_needed(entropybits, size) ==
    IF entropybits <= 0 \/ size <= 1
    THEN Error("ValueError")
    ELSE Value(Max(1, Ceil(entropybits * 1000, log2(size))))

\* words_amount_needed(entropybits, entropy_w, entropy_n, amount_n), amount
\* standing for amount_n:
\* ceil(max(0, entropybits - entropy_n * amount_n) / entropy_w).
calc_words_amount_needed(entropybits, entropy_w, entropy_n, amount) ==
    IF entropybits < 0
    THEN Error("ValueError")
    ELSE IF entropy_w = 0
    THEN Error("ZeroDivisionError")
    ELSE Value(Ceil(Max(0, entropybits * 1000 - entropy_n * amount), entropy_w))

-----------------------------------------------------------------------------
(* The entropy target and the sizes derived from it. *)

\* The targets handed to the entropy_bits_req setter: one negative value,
\* 0 .. MaxBits, and the 77 and 128 bits of the tests.
BitsInputs == (-1 .. MaxBits) \cup {77, 128}

set_entropy_bits_req ==
    \E entropybits \in BitsInputs :
        /\ IF entropybits < 0
           THEN /\ ret' = Given(entropybits, Raise("entropy_bits_req", "ValueError"))
                /\ UNCHANGED entropy_bits_req
           ELSE /\ entropy_bits_req' = Some(entropybits)
                /\ ret' = Given(entropybits, Ok("entropy_bits_req", <<>>))
        /\ UNCHANGED <<wordlist, external_wordlist, amount_w, amount_n,
                       randnum_min, randnum_max, passwordlen, use_lowercase,
                       use_uppercase, use_digits, use_punctuation,
                       wordlist_entropy_bits, separator, last_result, mcu>>

\* import_words_from_file(inputfile, is_diceware): the words of the file go
\* through the wordlist setter; a file that does not exist is an error.
import_words_from_file ==
    \E exists \in BOOLEAN :
        /\ IF exists
           THEN /\ wordlist' = Some(FileWords)
                /\ external_wordlist' = Some(TRUE)
                /\ ret' = Ok("import_words_from_file", <<>>)
           ELSE /\ ret' = Raise("import_words_from_file", "FileNotFoundError")
                /\ UNCHANGED <<wordlist, external_wordlist>>
        /\ UNCHANGED <<amount_w, amount_n, randnum_min, randnum_max,
                       passwordlen, use_lowercase, use_uppercase, use_digits,
                       use_punctuation, entropy_bits_req,
                       wordlist_entropy_bits, separator, last_result, mcu>>

\* The outcome of a call that hands on what a function of calc did.
Handed(op, result) ==
    IF result.err = "" THEN Ok(op, Some(result.val)) ELSE Raise(op, result.err)

\* password_length_needed's check: entropy_bits_req is None or not characters.
PasswordLengthRejects == entropy_bits_req = None \/ PasswordCharacters = <<>>

password_length_needed ==
    /\ IF PasswordLengthRejects
       THEN ret' = Raise("password_length_needed", "ValueError")
       ELSE ret' = Handed("password_length_needed",
                          calc_password_length_needed(entropy_bits_req[1],
                                                      Len(PasswordCharacters)))
    /\ UNCHANGED <<config, last_result, mcu>>

EntropyOfNumbers_DefaultRange == calc_entropy_bits_nrange(MIN_NUM, MAX_NUM)

\* entropy_n: self.entropy_bits((self.randnum_min, self.randnum_max)).
EntropyOfNumbers == calc_entropy_bits_nrange(randnum_min, randnum_max)

EntropyOfWords_AlwaysComputed == calc_entropy_bits(wordlist[1])

EntropyOfWords_PrecomputedOnceLoaded ==
    IF wordlist_entropy_bits /= None
    THEN Value(wordlist_entropy_bits[1])
    ELSE calc_entropy_bits(wordlist[1])

\* entropy_w: _wordlist_entropy_bits if _external_wordlist is False, else
\* self.entropy_bits(self.wordlist).
EntropyOfWords ==
    IF external_wordlist = Some(FALSE)
    THEN Value(wordlist_entropy_bits[1])
    ELSE calc_entropy_bits(wordlist[1])

\* words_amount_needed's check.
WordsAmountRejects ==
    \/ entropy_bits_req = None
    \/ amount_n = None
    \/ ~Truthy(wordlist)

words_amount_needed ==
    /\ IF WordsAmountRejects
       THEN ret' = Raise("words_amount_needed", "ValueError")
       ELSE IF EntropyOfNumbers.err /= ""
       THEN ret' = Raise("words_amount_needed", EntropyOfNumbers.err)
       ELSE IF EntropyOfWords.err /= ""
       THEN ret' = Raise("words_amount_needed", EntropyOfWords.err)
       ELSE ret' = Handed("words_amount_needed",
                          calc_words_amount_needed(entropy_bits_req[1],
                                                   EntropyOfWords.val,
                                                   EntropyOfNumbers.val,
                                                   amount_n[1]))
    /\ UNCHANGED <<config, last_result, mcu>>

(* The words needed: wordlists, numbers and a target, then the calculation. *)

NextEntropy ==
    \/ load_internal_wordlist
    \/ set_wordlist
    \/ import_words_from_file
    \/ set_entropy_bits_req
    \/ set_amount_n
    \/ set_randnum_min
    \/ set_randnum_max
    \/ words_amount_needed

SpecEntropy == Init /\ [][NextEntropy]_vars

(* The password length needed: calc's function on the sizes of SizeInputs, *)
(* and the entity's method on the character classes in use.                *)

\* The sizes of character set: 0 .. MaxCharset and the full set.
SizeInputs == (0 .. MaxCharset) \cup {94}

\* calc's password_length_needed called on its own.
call_password_length_needed ==
    \E entropybits \in BitsInputs, size \in SizeInputs :
        /\ ret' = Given(<<entropybits, size>>,
                        Handed("calc.password_length_needed",
                               calc_password_length_needed(entropybits, size)))
        /\ UNCHANGED <<config, last_result, mcu>>

NextLength ==
    \/ set_entropy_bits_req
    \/ set_password_use_lowercase
    \/ set_password_use_uppercase
    \/ set_password_use_digits
    \/ set_password_use_punctuation
    \/ password_length_needed
    \/ call_password_length_needed

SpecLength == Init /\ [][NextLength]_vars

-----------------------------------------------------------------------------
(* make_chars_uppercase: the static method the tests call; it is not in *)
(* passphrase.py.                                                     *)

IsLowerChar(c) == \E i \in 1 .. Len(LowercaseLetters) : LowercaseLetters[i] = c

IsUpperChar(c) == \E i \in 1 .. Len(UppercaseLetters) : UppercaseLetters[i] = c

\* str.isalpha of one (ASCII) character.
IsAlpha(c) == IsLowerChar(c) \/ IsUpperChar(c)

\* str.upper of one (ASCII) character.
ToUpper(c) ==
    IF IsLowerChar(c)
    THEN UppercaseLetters[CHOOSE i \in 1 .. Len(LowercaseLetters) : LowercaseLetters[i] = c]
    ELSE c

RECURSIVE Leaves(_)
RECURSIVE LeavesOfAll(_)

\* The leaf characters of a case-tree, in traversal order.
Leaves(node) ==
    IF node.kind = "str" THEN node.chars ELSE LeavesOfAll(node.kids)

LeavesOfAll(nodes) ==
    IF nodes = <<>> THEN <<>> ELSE Leaves(Head(nodes)) \o LeavesOfAll(Tail(nodes))

RECURSIVE Rebuild_AsLists(_, _, _)

Rebuild_AsLists(node, flat, off) ==
    IF node.kind = "str"
    THEN [node EXCEPT !.chars = [i \in 1 .. Len(node.chars) |-> flat[off + i]]]
    ELSE [node EXCEPT
            !.kind = IF node.kind = "int" THEN "int" ELSE "list",
            !.kids =
                [i \in 1 .. Len(node.kids) |->
                    Rebuild_AsLists(node.kids[i], flat,
                        off + Len(LeavesOfAll(SubSeq(node.kids, 1, i - 1))))]]

RECURSIVE Rebuild(_, _, _)

\* The tree of node's shape and kinds whose leaf characters are those of
\* flat, from position off + 1 on.
Rebuild(node, flat, off) ==
    IF node.kind = "str"
    THEN [node EXCEPT !.chars = [i \in 1 .. Len(node.chars) |-> flat[off + i]]]
    ELSE [node EXCEPT !.kids =
            [i \in 1 .. Len(node.kids) |->
                Rebuild(node.kids[i], flat,
                        off + Len(LeavesOfAll(SubSeq(node.kids, 1, i - 1))))]]

AlphabeticPositions(flat) == {i \in 1 .. Len(flat) : IsAlpha(flat[i])}

\* The leaves with the positions of selected made uppercase.
Uppercased(flat, selected) ==
    [i \in 1 .. Len(flat) |-> IF i \in selected THEN ToUpper(flat[i]) ELSE flat[i]]

MakeCharsUppercase_AnyPosition(data, count) ==
    LET flat == Leaves(data)
        total == Cardinality(AlphabeticPositions(flat))
        amount == Min(count, total)
    IN  {Rebuild(data, Uppercased(flat, selected), 0) :
            selected \in {S \in SUBSET (1 .. Len(flat)) : Cardinality(S) = amount}}

MakeCharsUppercase_WithReplacement(data, count) ==
    LET flat == Leaves(data)
        alphabetic == AlphabeticPositions(flat)
        amount == Min(count, Cardinality(alphabetic))
    IN  {Rebuild(data, Uppercased(flat, selected), 0) :
            selected \in {S \in SUBSET alphabetic :
                            /\ Cardinality(S) <= amount
                            /\ amount > 0 => S /= {}}}

\* The values make_chars_uppercase(data, count) can return, count >= 0:
\* min(count, total_alphabetic) distinct alphabetic leaf positions are
\* selected at random and made uppercase; the other leaves are copied.
MakeCharsUppercase(data, count) ==
    LET flat == Leaves(data)
        alphabetic == AlphabeticPositions(flat)
        amount == Min(count, Cardinality(alphabetic))
    IN  {Rebuild(data, Uppercased(flat, selected), 0) :
            selected \in {S \in SUBSET alphabetic : Cardinality(S) = amount}}

\* The characters the strings handed to make_chars_uppercase are made of:
\* lowercase, uppercase and not alphabetic.
CaseAlphabet == {"a", "b", "C", "1"}

CaseStrings == UNION {[1 .. n -> CaseAlphabet] : n \in 0 .. MaxLen}

\* list(string)
ListOfChars(string) ==
    Container("list", [i \in 1 .. Len(string) |-> StrNode(<<string[i]>>)])

\* The data handed to make_chars_uppercase: a string or a list of characters.
CaseInputs ==
    {StrNode(string) : string \in CaseStrings}
        \cup {ListOfChars(string) : string \in CaseStrings}

\* The kinds of value make_chars_uppercase takes as data.
SupportedKinds == {"str", "list", "tuple", "set"}

MakeCharsUppercaseErrors_RejectsNestedNumbers(data, ctype, count) ==
    (IF \/ data.kind \notin SupportedKinds
        \/ ctype /= "int"
        \/ \E i \in 1 .. Len(data.kids) : data.kids[i].kind = "int"
     THEN {"TypeError"} ELSE {})
        \cup (IF ctype = "int" /\ count < 0 THEN {"ValueError"} ELSE {})

\* The errors make_chars_uppercase(data, count) can raise: TypeError for data
\* that is not a string, list, tuple or set and for a count that is not an
\* int, ValueError for a negative count.  A number inside a container is
\* not an error.
MakeCharsUppercaseErrors(data, ctype, count) ==
    (IF data.kind \notin SupportedKinds \/ ctype /= "int"
     THEN {"TypeError"} ELSE {})
        \cup (IF ctype = "int" /\ count < 0 THEN {"ValueError"} ELSE {})

make_chars_uppercase ==
    /\ ~mcu.done
    /\ IF MakeCharsUppercaseErrors(mcu.data, mcu.ctype, mcu.count) /= {}
       THEN \E err \in MakeCharsUppercaseErrors(mcu.data, mcu.ctype, mcu.count) :
                mcu' = [mcu EXCEPT !.err = err, !.done = TRUE]
       ELSE \E out \in MakeCharsUppercase(mcu.data, mcu.count) :
                mcu' = [mcu EXCEPT !.out = out, !.done = TRUE]
    /\ UNCHANGED <<config, last_result, ret>>

(* make_chars_uppercase on every input of the bounded sets. *)

InitCase ==
    /\ InitEntity
    /\ \E data \in CaseInputs, count \in -1 .. MaxLen + 1 :
          mcu = [data |-> data, ctype |-> "int", count |-> count, err |-> "",
                 out |-> data, done |-> FALSE]

NextCase == make_chars_uppercase

SpecCase == InitCase /\ [][NextCase]_vars

(* make_chars_uppercase on nested data and on arguments of other types. *)

ContainerKinds == {"list", "tuple", "set"}

\* The strings and the number that sit inside the nested data.
NestedLeaves ==
    {StrNode(<<>>), StrNode(<<"a">>), StrNode(<<"b", "C">>), IntNode(12)}

\* Containers of leaves.
InnerContainers ==
    {Container(kind, <<>>) : kind \in ContainerKinds}
        \cup {Container(kind, <<x, y>>) :
                kind \in ContainerKinds, x \in NestedLeaves, y \in NestedLeaves}

\* The nested list of test_make_chars_uppercase.
TestNested ==
    Container("list", <<
        Container("list", <<Container("list", <<>>),
                            Container("list", <<StrNode(<<"b">>)>>)>>),
        Container("list", <<StrNode(<<"a">>)>>),
        Container("set", <<IntNode(12), StrNode(<<"b", "s", "h">>), IntNode(0)>>),
        Container("tuple", <<
            StrNode(<<"f">>), IntNode(1), IntNode(2), IntNode(3),
            Container("tuple", <<
                Container("tuple", <<IntNode(3), IntNode(4),
                    Container("list", <<StrNode(<<"v">>),
                                        StrNode(<<"b", "j", "k">>)>>)>>),
                Container("list", <<StrNode(<<"a">>), IntNode(4),
                                    StrNode(<<"p">>)>>)>>)>>)>>)

\* Containers of a container and a leaf, and the test's list.
NestedInputs ==
    {Container(kind, <<inner, x>>) :
        kind \in ContainerKinds, inner \in InnerContainers, x \in NestedLeaves}
        \cup {TestNested}

\* The values of other types the tests hand over as data: a dict, a float
\* and an int.
WrongData ==
    {Container("dict", <<>>),
     [kind |-> "float", chars |-> <<>>, kids |-> <<>>, num |-> 1],
     IntNode(1)}

\* The type of the count argument; a count that is not an int has no value
\* here.
CountTypes == {"int", "float", "str"}

InitNested ==
    /\ InitEntity
    /\ \E data \in NestedInputs \cup WrongData, ctype \in CountTypes,
          count \in -1 .. MaxLen :
          /\ ctype /= "int" => count = 0
          /\ mcu = [data |-> data, ctype |-> ctype, count |-> count,
                    err |-> "", out |-> data, done |-> FALSE]

SpecNested == InitNested /\ [][NextCase]_vars

-----------------------------------------------------------------------------
(* Properties of generate. *)

Returned(op) == ret.op = op /\ ret.err = ""

IsWordOf(tok, words) ==
    /\ tok.kind = "str"
    /\ \E i \in 1 .. Len(words) : words[i] = tok.chars

\* C1: a successful generate() with amount_w = W and amount_n = N returns
\* exactly W + N tokens, the first W of them members of the wordlist and the
\* last N of them integers.
C1_WordsThenNumbers ==
    Returned("generate") =>
        /\ Truthy(wordlist) /\ amount_w /= None /\ amount_n /= None
        /\ Len(ret.val) = amount_w[1] + amount_n[1]
        /\ \A i \in 1 .. Len(ret.val) :
              IF i <= amount_w[1]
              THEN IsWordOf(ret.val[i], wordlist[1])
              ELSE ret.val[i].kind = "int"

\* More words than the wordlist holds, followed by numbers.
C1_Witness ==
    /\ Returned("generate")
    /\ amount_w[1] > Len(wordlist[1])
    /\ amount_n[1] > 1
    /\ Len(ret.val) = amount_w[1] + amount_n[1]

\* C2: every integer token of generate() lies in the range
\* [randnum_min, randnum_max] that is configured on the entity (stated for a
\* configured range that is not empty).
C2_NumbersInConfiguredRange ==
    (Returned("generate") /\ randnum_min <= randnum_max) =>
        \A i \in 1 .. Len(ret.val) :
            ret.val[i].kind = "int" =>
                randnum_min <= ret.val[i].num /\ ret.val[i].num <= randnum_max

\* C3: generate() raises its validation error exactly when the wordlist is
\* unset or empty or a count is unset; counts of 0 are set, and then the
\* result is the empty list.
C3_GenerateFailsIffUnset ==
    ret.op = "generate" =>
        /\ ret.err \in {"", "ValueError"}
        /\ ret.err = "ValueError" <=>
              \/ wordlist = None
              \/ wordlist = Some(<<>>)
              \/ amount_w = None
              \/ amount_n = None
        /\ (ret.err = "" /\ amount_w = Some(0) /\ amount_n = Some(0)) =>
              ret.val = <<>> /\ last_result = Some(<<>>)

C3_Witness ==
    /\ Returned("generate")
    /\ amount_w = Some(0)
    /\ amount_n = Some(0)
    /\ ret.val = <<>>

-----------------------------------------------------------------------------
(* Properties of generate_uuid4. *)

\* C4: generate_uuid4() never fails, whatever is configured, and returns five
\* segments, the third starting with "4" and the fourth with one of 8, 9, a, b.
C4_VersionAndVariant ==
    ret.op = "generate_uuid4" =>
        /\ ret.err = ""
        /\ Len(ret.val) = 5
        /\ \A i \in 1 .. 5 : ret.val[i].kind = "str" /\ ret.val[i].chars /= <<>>
        /\ ret.val[3].chars[1] = "4"
        /\ ret.val[4].chars[1] \in {"8", "9", "a", "b"}

\* A fresh entity, and the largest variant digit.
C4_Witness ==
    /\ Returned("generate_uuid4")
    /\ ~ret.had
    /\ wordlist = None /\ amount_w = None /\ amount_n = None
    /\ passwordlen = None
    /\ ret.val[3].chars[1] = "4"
    /\ ret.val[4].chars[1] = "b"

SegmentLengths(tokens) == [i \in 1 .. Len(tokens) |-> Len(tokens[i].chars)]

\* C5: the five segments of generate_uuid4() are 8, 4, 4, 4 and 12 characters
\* long, randhex(n) returning 2n characters.
C5_SegmentLengths ==
    Returned("generate_uuid4") => SegmentLengths(ret.val) = <<8, 4, 4, 4, 12>>

-----------------------------------------------------------------------------
(* Properties of generate_password. *)

Elements(seq) == {seq[i] : i \in 1 .. Len(seq)}

\* c is a character of a class that is enabled.
OfEnabledClass(c) ==
    \/ use_lowercase /\ c \in Elements(LowercaseLetters)
    \/ use_uppercase /\ c \in Elements(UppercaseLetters)
    \/ use_digits /\ c \in Elements(DigitChars)
    \/ use_punctuation /\ c \in Elements(PunctuationChars)

\* C6: a successful generate_password() with passwordlen = L returns exactly
\* L tokens, each a single character of an enabled class.
C6_PasswordOfEnabledClasses ==
    Returned("generate_password") =>
        /\ passwordlen /= None
        /\ use_lowercase \/ use_uppercase \/ use_digits \/ use_punctuation
        /\ Len(ret.val) = passwordlen[1]
        /\ \A i \in 1 .. Len(ret.val) :
              /\ ret.val[i].kind = "str"
              /\ Len(ret.val[i].chars) = 1
              /\ ret.val[i].chars[1] \in Elements(PasswordCharacters)
              /\ OfEnabledClass(ret.val[i].chars[1])

\* Two classes are disabled, and characters of the other two are drawn.
C6_Witness ==
    /\ Returned("generate_password")
    /\ ~use_lowercase /\ use_uppercase /\ ~use_digits /\ use_punctuation
    /\ Len(ret.val) = 2
    /\ ret.val[1].chars[1] \in Elements(PunctuationChars)
    /\ ret.val[2].chars[1] \in Elements(UppercaseLetters)

-----------------------------------------------------------------------------
(* Properties of last_result. *)

GenerationCalls == {"generate", "generate_password", "generate_uuid4"}

\* How many tokens the call that has just returned builds.
TokensBuilt ==
    CASE ret.op = "generate" -> amount_w[1] + amount_n[1]
      [] ret.op = "generate_password" -> passwordlen[1]
      [] ret.op = "generate_uuid4" -> 5

\* C7: after a successful generation call last_result is exactly the list
\* that call returned, of the tokens that call built and no others.
C7_LastResultReplaced ==
    (ret.op \in GenerationCalls /\ ret.err = "") =>
        /\ last_result = Some(ret.val)
        /\ Len(last_result[1]) = TokensBuilt

\* A call that found an earlier result and returned a shorter one.
C7_Witness ==
    /\ Returned("generate_password")
    /\ ret.had
    /\ last_result = Some(ret.val)
    /\ Len(ret.val) = 1

-----------------------------------------------------------------------------
(* Properties of make_chars_uppercase. *)

CountIn(flat, Test(_)) == Cardinality({i \in 1 .. Len(flat) : Test(flat[i])})

\* Aux.uppercase_count and Aux.lowercase_count, and the alphabetic total.
UppercaseCount(node) == CountIn(Leaves(node), IsUpperChar)

LowercaseCount(node) == CountIn(Leaves(node), IsLowerChar)

TotalAlphabetic(node) == CountIn(Leaves(node), IsAlpha)

Applied == mcu.done /\ mcu.err = ""

\* Every leaf of the result is the input's leaf, as it was or made uppercase.
OnlyUppercased ==
    LET before == Leaves(mcu.data)
        after == Leaves(mcu.out)
    IN  /\ Len(after) = Len(before)
        /\ \A i \in 1 .. Len(before) : after[i] \in {before[i], ToUpper(before[i])}

\* The leaves whose case differs from the input's.
Converted ==
    LET before == Leaves(mcu.data)
        after == Leaves(mcu.out)
    IN  {i \in 1 .. Len(before) : after[i] /= before[i]}

\* C8 (as stated): for 0 < count < total_alphabetic(s) exactly count
\* alphabetic characters of the result are uppercase and every other
\* character keeps its case.
C8_ExactlyCountUppercase ==
    (Applied /\ 0 < mcu.count /\ mcu.count < TotalAlphabetic(mcu.data)) =>
        /\ UppercaseCount(mcu.out) = mcu.count
        /\ OnlyUppercased

\* C8 (amended): for 0 < count < total_alphabetic(s) and U uppercase
\* characters in s, the result has at least max(count, U) and at most
\* U + count uppercase characters, exactly count when U = 0; at most count
\* characters are converted and every other character keeps its case.
C8_UppercaseBetween ==
    (Applied /\ 0 < mcu.count /\ mcu.count < TotalAlphabetic(mcu.data)) =>
        /\ OnlyUppercased
        /\ Cardinality(Converted) <= mcu.count
        /\ UppercaseCount(mcu.out) >= Max(mcu.count, UppercaseCount(mcu.data))
        /\ UppercaseCount(mcu.out) <= UppercaseCount(mcu.data) + mcu.count
        /\ UppercaseCount(mcu.data) = 0 => UppercaseCount(mcu.out) = mcu.count

\* Two of three lowercase letters are made uppercase.
C8_Witness ==
    /\ Applied
    /\ mcu.count = 2
    /\ TotalAlphabetic(mcu.data) = 3
    /\ UppercaseCount(mcu.data) = 0
    /\ UppercaseCount(mcu.out) = 2

\* C9: for data with U uppercase characters and at least count lowercase
\* ones, the result is of data's kind and has exactly U + count uppercase
\* characters.
C9_UppercaseGrowsByCount ==
    (Applied /\ LowercaseCount(mcu.data) >= mcu.count) =>
        /\ mcu.out.kind = mcu.data.kind
        /\ UppercaseCount(mcu.out) = UppercaseCount(mcu.data) + mcu.count

\* C10: for count >= total_alphabetic(data) the result is data with every
\* alphabetic character in uppercase.
C10_AllUppercase ==
    (Applied /\ mcu.count >= TotalAlphabetic(mcu.data)) =>
        LET flat == Leaves(mcu.data)
        IN  /\ mcu.out = Rebuild(mcu.data, [i \in 1 .. Len(flat) |-> ToUpper(flat[i])], 0)
            /\ LowercaseCount(mcu.out) = 0

\* A list of a lowercase, an uppercase and a non-alphabetic character, with a
\* count above its two alphabetic characters.
C10_Witness ==
    /\ Applied
    /\ mcu.data.kind = "list"
    /\ Leaves(mcu.data) = <<"a", "C", "1">>
    /\ mcu.count = 3
    /\ Leaves(mcu.out) = <<"A", "C", "1">>

-----------------------------------------------------------------------------
(* Properties of make_chars_uppercase on nested data. *)

RECURSIVE SameShape(_, _)

\* Two trees with the same kind of node at every place, strings of the same
\* length and the same numbers.
SameShape(a, b) ==
    /\ a.kind = b.kind
    /\ a.num = b.num
    /\ Len(a.chars) = Len(b.chars)
    /\ Len(a.kids) = Len(b.kids)
    /\ \A i \in 1 .. Len(a.kids) : SameShape(a.kids[i], b.kids[i])

RECURSIVE HasUnsupported(_)

\* The tree holds a node that is no string, list, tuple or set.
HasUnsupported(node) ==
    \/ node.kind \notin SupportedKinds
    \/ \E i \in 1 .. Len(node.kids) : HasUnsupported(node.kids[i])

\* C11 (as stated): make_chars_uppercase on a nested mix of lists, tuples,
\* sets and strings returns a structure of the same shape and the same kinds
\* of container at every depth, whose uppercase leaf characters are exactly
\* count in number.
C11_UppercaseEqualsCount ==
    (Applied /\ mcu.data.kind \in ContainerKinds) =>
        /\ SameShape(mcu.data, mcu.out)
        /\ UppercaseCount(mcu.out) = mcu.count

\* C11 (amended): the result has the shape and the kinds of container of the
\* input at every depth and differs from it only in leaf characters made
\* uppercase; for an input without uppercase characters the uppercase leaf
\* characters of the result are min(count, total_alphabetic) in number.
C11_ShapeKeptCountCapped ==
    (Applied /\ mcu.data.kind \in ContainerKinds) =>
        /\ SameShape(mcu.data, mcu.out)
        /\ OnlyUppercased
        /\ UppercaseCount(mcu.data) = 0 =>
              UppercaseCount(mcu.out) = Min(mcu.count, TotalAlphabetic(mcu.data))

\* The test's list, five levels deep with a set and tuples, and two of its
\* twelve letters made uppercase.
C11_Witness ==
    /\ Applied
    /\ mcu.data = TestNested
    /\ mcu.count = 2
    /\ mcu.out /= mcu.data
    /\ SameShape(mcu.data, mcu.out)
    /\ UppercaseCount(mcu.out) = 2

-----------------------------------------------------------------------------
(* Properties of generate's case argument. *)

\* The entity meets generate's precondition with the internal wordlist.
ReadyInternal ==
    /\ external_wordlist = Some(FALSE)
    /\ Truthy(wordlist)
    /\ amount_w /= None
    /\ amount_n /= None

\* The last call was generate(case) for a case that satisfies Test.
GenerateGiven(Test(_)) ==
    /\ ret.op = "generate"
    /\ ret.arg /= None
    /\ Test(ret.arg[1])

\* The word tokens of a result, as one list.
WordsOf(tokens) ==
    Container("list", SelectSeq(tokens, LAMBDA tok : tok.kind = "str"))

\* The tokens after the first n are numbers.
NumbersAfter(tokens, n) ==
    \A i \in 1 .. Len(tokens) : tokens[i].kind = "int" <=> i > n

IsZero(case) == case = 0

IsPositive(case) == case > 0

IsNegative(case) == case < 0

C14_ZeroMakesAllUppercase ==
    (ReadyInternal /\ amount_w[1] > 0 /\ GenerateGiven(IsZero)) =>
        /\ ret.err = ""
        /\ Len(WordsOf(ret.val).kids) = amount_w[1]
        /\ LowercaseCount(WordsOf(ret.val)) = 0

\* C15: generate(case_bias) with case_bias > 0 returns words with exactly
\* case_bias uppercase characters when they have at least case_bias
\* alphabetic characters and all in uppercase otherwise, followed by the
\* numbers.
C15_PositiveCountsUppercase ==
    (ReadyInternal /\ GenerateGiven(IsPositive)) =>
        /\ ret.err = ""
        /\ NumbersAfter(ret.val, amount_w[1])
        /\ UppercaseCount(WordsOf(ret.val)) =
              Min(ret.arg[1], TotalAlphabetic(WordsOf(ret.val)))

\* C16: generate(case_bias) with case_bias < 0 returns words with exactly
\* |case_bias| lowercase characters when they have at least |case_bias|
\* alphabetic characters and all in lowercase otherwise.
C16_NegativeCountsLowercase ==
    (ReadyInternal /\ GenerateGiven(IsNegative)) =>
        /\ ret.err = ""
        /\ LowercaseCount(WordsOf(ret.val)) =
              Min(-ret.arg[1], TotalAlphabetic(WordsOf(ret.val)))

-----------------------------------------------------------------------------
(* Properties of the entropy calculations. *)

\* The entropy target and the entropy of the numbers, in thousandths of a bit.
TargetEntropy == entropy_bits_req[1] * 1000

NumbersEntropy == log2(randnum_max - randnum_min + 1) * amount_n[1]

\* val is ceil(max(0, target - numbers) / perword), for a range that is not
\* empty and words that have entropy.
IsWordsFor(perword, val) ==
    /\ randnum_min <= randnum_max
    /\ perword > 0
    /\ val = Some(Ceil(Max(0, TargetEntropy - NumbersEntropy), perword))

\* C17: words_amount_needed returns
\* ceil(max(0, target - bits_per_number * amount_n) / bits_per_word), where
\* bits_per_number is the entropy of the configured range
\* [randnum_min, randnum_max]; it returns 0 whenever the numbers alone
\* satisfy the target.
C17_WordsAmountFormula ==
    Returned("words_amount_needed") =>
        /\ IsWordsFor(IF external_wordlist = Some(FALSE)
                      THEN wordlist_entropy_bits[1]
                      ELSE log2(Len(wordlist[1])),
                      ret.val)
        /\ NumbersEntropy >= TargetEntropy => ret.val = Some(0)

\* One number of the configured range 0 .. 4 leaves one word of the six to
\* reach 4 bits.
C17_Witness ==
    /\ Returned("words_amount_needed")
    /\ randnum_min = 0
    /\ randnum_max = MAX_NUM
    /\ amount_n = Some(1)
    /\ entropy_bits_req = Some(4)
    /\ wordlist = Some(FileWords)
    /\ ret.val = Some(1)

\* C18: after any sequence of load_internal_wordlist, wordlist assignments
\* and import_words_from_file, words_amount_needed uses the precomputed
\* bits per word if the most recent load was the internal one and otherwise
\* log2 of the size of the current wordlist: for 77 bits and no numbers the
\* internal list needs 6 words and the six-word file, imported after it, 30.
\* (No list handed to the setter or read from the file equals the internal
\* one, so that the wordlist tells which load was the last.)
C18_PrecomputedIffInternalLast ==
    Returned("words_amount_needed") =>
        /\ wordlist = Some(InternalWords) =>
              /\ IsWordsFor(InternalEntropyBits, ret.val)
              /\ (entropy_bits_req = Some(77) /\ amount_n = Some(0)) =>
                    ret.val = Some(6)
        /\ wordlist /= Some(InternalWords) =>
              /\ IsWordsFor(log2(Len(wordlist[1])), ret.val)
              /\ (/\ wordlist = Some(FileWords)
                  /\ entropy_bits_req = Some(77)
                  /\ amount_n = Some(0)) => ret.val = Some(30)

\* The six-word file imported after the internal list was loaded.
C18_Witness ==
    /\ Returned("words_amount_needed")
    /\ wordlist_entropy_bits /= None
    /\ wordlist = Some(FileWords)
    /\ entropy_bits_req = Some(77)
    /\ amount_n = Some(0)
    /\ ret.val = Some(30)

\* length is the smallest L >= 1 with size^L >= 2^entropybits (when the
\* powers are small enough to compute), and ceil(entropybits / log2(size)),
\* at least 1.
IsLengthNeeded(entropybits, size, length) ==
    /\ length >= 1
    /\ length = Max(1, Ceil(entropybits * 1000, log2(size)))
    /\ entropybits <= MaxBits =>
          /\ size ^ length >= 2 ^ entropybits
          /\ length > 1 => size ^ (length - 1) < 2 ^ entropybits
    /\ (entropybits = 128 /\ size = 94) => length = 20

\* C19: password_length_needed returns ceil(target / log2(charset_size)), at
\* least 1: the smallest length L >= 1 with charset_size^L >= 2^target; for
\* 128 bits and the 94 characters it is 20.
C19_PasswordLengthNeeded ==
    /\ Returned("calc.password_length_needed") =>
          IsLengthNeeded(ret.arg[1][1], ret.arg[1][2], ret.val[1])
    /\ Returned("password_length_needed") =>
          IsLengthNeeded(entropy_bits_req[1], Len(PasswordCharacters), ret.val[1])

\* 128 bits over the 94 characters.
C19_Witness ==
    /\ Returned("calc.password_length_needed")
    /\ ret.arg = Some(<<128, 94>>)
    /\ ret.val = Some(20)

-----------------------------------------------------------------------------
(* Properties of the setters. *)

IntegerSetters ==
    {"amount_w", "amount_n", "passwordlen", "randnum_min", "randnum_max"}

\* What the property op reads: None or <<value>>.
Read(op) ==
    CASE op = "amount_w" -> amount_w
      [] op = "amount_n" -> amount_n
      [] op = "passwordlen" -> passwordlen
      [] op = "randnum_min" -> Some(randnum_min)
      [] op = "randnum_max" -> Some(randnum_max)

\* C20: after any sequence of setter calls, accepted or rejected, amount_w,
\* amount_n, passwordlen, randnum_min and randnum_max are each unset or a
\* non-negative integer: a negative value is rejected with an error and
\* leaves the field at its previous value, an accepted value is read back
\* unchanged.
C20_SettersKeepNonNegative ==
    [][/\ \A op \in IntegerSetters : Read(op)' = None \/ Read(op)'[1] >= 0
       /\ ret'.op \in IntegerSetters =>
             /\ ret'.err = (IF ret'.arg[1] < 0 THEN "ValueError" ELSE "")
             /\ ret'.err /= "" => config' = config
             /\ ret'.err = "" =>
                   \A op \in IntegerSetters :
                       Read(op)' = IF op = ret'.op THEN ret'.arg ELSE Read(op)
      ]_vars

\* A negative amount_w rejected after amount_w was set to 2.
C20_Witness ==
    /\ ret.op = "amount_w"
    /\ ret.arg = Some(-1)
    /\ ret.err = "ValueError"
    /\ amount_w = Some(2)
    /\ randnum_max = 0

-----------------------------------------------------------------------------
(* Properties of the entropy target and of the numeric range. *)

\* C21: password_length_needed() and words_amount_needed() return a value
\* only for an entropy target above 0: with a target of 0 or less they fail.
C21_TargetPositiveWhenUsed ==
    (Returned("password_length_needed") \/ Returned("words_amount_needed")) =>
        entropy_bits_req[1] > 0

\* C22: in every state reached through the randnum_min and randnum_max
\* setters randnum_min <= randnum_max, so that the range of the numbers is
\* never empty.
C22_RangeNeverEmpty == randnum_min <= randnum_max

-----------------------------------------------------------------------------
(* Properties of the amount of words needed. *)

\* The entropy of a word of the current wordlist, as words_amount_needed
\* takes it.
BitsPerWord ==
    IF external_wordlist = Some(FALSE)
    THEN wordlist_entropy_bits[1]
    ELSE log2(Len(wordlist[1]))

\* amount_w * bits_per_word + amount_n * bits_per_number
PassphraseEntropy(words) == words * BitsPerWord + NumbersEntropy

\* The number of passphrases of that many words of an external wordlist and
\* amount_n numbers of the range.
PassphraseCount(words) ==
    Len(wordlist[1]) ^ words * (randnum_max - randnum_min + 1) ^ amount_n[1]

\* C23: with amount_w set to the value words_amount_needed() returns, the
\* entropy amount_w * bits_per_word + amount_n * bits_per_number is at least
\* entropy_bits_req, and with one word less (for amount_w > 0) it is below
\* entropy_bits_req.  For an external wordlist and a target of up to MaxBits
\* bits the same is stated of the exact number of passphrases against
\* 2^entropy_bits_req.
C23_MinimumSufficient ==
    Returned("words_amount_needed") =>
        /\ randnum_min <= randnum_max
        /\ ret.val[1] >= 0
        /\ PassphraseEntropy(ret.val[1]) >= TargetEntropy
        /\ ret.val[1] > 0 => PassphraseEntropy(ret.val[1] - 1) < TargetEntropy
        /\ (external_wordlist = Some(TRUE) /\ entropy_bits_req[1] <= MaxBits) =>
              /\ PassphraseCount(ret.val[1]) >= 2 ^ entropy_bits_req[1]
              /\ ret.val[1] > 0 =>
                    PassphraseCount(ret.val[1] - 1) < 2 ^ entropy_bits_req[1]

\* Two words of the six-word file and one number of the default range for
\* 4 bits.
C23_Witness ==
    /\ Returned("words_amount_needed")
    /\ wordlist = Some(FileWords)
    /\ amount_n = Some(1)
    /\ entropy_bits_req = Some(4)
    /\ randnum_min = MIN_NUM
    /\ randnum_max = MAX_NUM
    /\ ret.val = Some(2)

-----------------------------------------------------------------------------
(* The calls that check the configuration before they work: both generators *)
(* and both calculations, on an entity whose wordlist, counts and password  *)
(* length are unset or set, with the target and one of the character flags  *)
(* changed between the calls so that each call both fails and succeeds.     *)

InitFrame ==
    /\ wordlist \in Optional({InternalWords})
    /\ external_wordlist = IF wordlist = None THEN None ELSE Some(FALSE)
    /\ amount_w \in Optional({1})
    /\ amount_n \in Optional({1})
    /\ randnum_min = MIN_NUM
    /\ randnum_max = MAX_NUM
    /\ passwordlen \in Optional({1})
    /\ use_lowercase = FALSE
    /\ use_uppercase = FALSE
    /\ use_digits = TRUE
    /\ use_punctuation = FALSE
    /\ entropy_bits_req = None
    /\ wordlist_entropy_bits =
          IF wordlist = None THEN None ELSE Some(InternalEntropyBits)
    /\ separator = DefaultSeparator
    /\ last_result = None
    /\ ret = Constructed
    /\ mcu = NoCall

NextFrame ==
    \/ set_entropy_bits_req
    \/ set_password_use_digits
    \/ set_password_use_lowercase
    \/ generate
    \/ generate_password
    \/ password_length_needed
    \/ words_amount_needed

SpecFrame == InitFrame /\ [][NextFrame]_vars

Generators == {"generate", "generate_password"}
Calculations == {"password_length_needed", "words_amount_needed"}

\* C24: a call of generate(), generate_password(), password_length_needed()
\* or words_amount_needed() that fails changes nothing of the entity:
\* last_result and every configuration field are as before.  A generation
\* call that succeeds sets last_result to the list it returns and changes no
\* configuration field.
C24_FailureChangesNothing ==
    [][/\ (ret'.op \in Generators \cup Calculations /\ ret'.err /= "") =>
             /\ config' = config
             /\ last_result' = last_result
       /\ (ret'.op \in Generators /\ ret'.err = "") =>
             /\ config' = config
             /\ last_result' = Some(ret'.val)]_vars

\* generate_password failed on an entity that holds an earlier result.
C24_Witness ==
    /\ ret.op = "generate_password"
    /\ ret.err /= ""
    /\ last_result /= None

-----------------------------------------------------------------------------
(* Properties of the string form. *)

RECURSIVE Joined(_, _)
\* The strings with sep between each two of them.
Joined(strs, sep) ==
    IF strs = <<>> THEN <<>>
    ELSE IF Len(strs) = 1 THEN strs[1]
    ELSE strs[1] \o sep \o Joined(Tail(strs), sep)

\* C25: str(entity) is the tokens of last_result, each as a string, joined
\* by the separator with no separator before the first or after the last
\* token, for every separator, the empty one included (then the tokens are
\* concatenated whole); it is the empty string when last_result is unset or
\* empty.
C25_StringIsJoinedTokens ==
    Returned("__str__") =>
        ret.val =
            IF last_result = None \/ last_result[1] = <<>> THEN <<>>
            ELSE Joined([i \in 1 .. Len(last_result[1]) |->
                            ToStr(last_result[1][i])], separator)

\* The string of a word and a number with the empty separator.
C25_Witness ==
    /\ Returned("__str__")
    /\ separator = <<>>
    /\ last_result /= None
    /\ Len(last_result[1]) = 2
    /\ last_result[1][2].kind = "int"
    /\ Len(ret.val) = 3

====
